---------------------------- MODULE Spec2Model ----------------------------
(***************************************************************************)
(* Model of the frame-to-document pipeline of Serial Studio:               *)
(* JSON::Generator and JSONWorker (src/src/JSON/Generator.cpp) and the     *)
(* part of MQTT::Client the generator consults (src/unnamed/part_000).     *)
(*                                                                         *)
(* Texts (QByteArray, QString, std::string) are sequences of one-character *)
(* strings.  A structured document is the object                           *)
(*     { "v1" "v2" ... }                                                   *)
(* i.e. an opening brace, a run of quoted dataset values, a closing brace: *)
(* the one-group reduction of {"g":[{"d":[{"v":"v1"},{"v":"v2"}]}]}.       *)
(***************************************************************************)
EXTENDS Integers, Sequences, FiniteSets, TLC

VARIABLES
    m_frameCount,               \* Generator::m_frameCount
    m_opMode,                   \* Generator::m_opMode
    m_processInSeparateThread,  \* Generator::m_processInSeparateThread
    m_jsonMapData,              \* Generator::m_jsonMapData (template text)
    m_jsonMapOpen,              \* Generator::m_jsonMap.isOpen()
    m_engine,                   \* Generator::m_engine: its global object
    settings,                   \* m_settings value "json_map_location"
    mainPc,                     \* position of the GUI thread inside loadJsonMap
    loadPath,                   \* argument of the loadJsonMap call in progress
    csvOpen,                    \* CSV::Player::isOpen()
    devOpen,                    \* IO::Manager::connected()
    mqttSub,                    \* MQTT::Client::isSubscribed()
    m_frames,                   \* MQTT::Client::m_frames
    m_sentMessages,             \* MQTT::Client::m_sentMessages
    m_clientMode,               \* MQTT::Client::m_clientMode
    published,                  \* the messages handed to QMQTT::Client::publish
    workers,                    \* live JSONWorker objects, each on its own QThread
    jfiQueue,                   \* queued jsonReady signals awaiting the GUI thread
    delivered,                  \* the jsonChanged emissions, in order
    clock,                      \* QDateTime::currentDateTime(), one tick per frame
    epoch,                      \* history: number of openChanged/deviceChanged events
    sinceEvent,                 \* history: frames accepted since the last such event
    log,                        \* history: per readData/loadJSON call, its dispatch
    lastLoad,                   \* history: outcome of the most recent loadJsonMap
    prevData,                   \* history: m_jsonMapData when that call began
    hist,                       \* which history variables this specification records
    limit                       \* how many readData/loadJSON calls it follows

vars == << m_frameCount, m_opMode, m_processInSeparateThread, m_jsonMapData,
           m_jsonMapOpen, settings, mainPc, loadPath, csvOpen, devOpen, mqttSub,
           workers, jfiQueue, delivered, clock, epoch, sinceEvent, log,
           lastLoad, prevData, hist, limit, m_engine, m_frames,
           m_sentMessages, m_clientMode, published >>

(***************************************************************************)
(* Bounds of the model.                                                    *)
(***************************************************************************)
MaxFrames == 1
LongFrames == 2
MaxEvents == 2
\* frames the MQTT client queues between two publications, and messages it
\* publishes between two resets of its statistics
MaxQueue == 2
MaxMessages == 2

(***************************************************************************)
(* Characters and texts.                                                   *)
(***************************************************************************)
Quote == "'"
LBrace == "{"
RBrace == "}"
Percent == "%"
EmptyText == << >>

DigitChars == << "1", "2", "3", "4", "5", "6", "7", "8", "9" >>

IsDigit(c) == c = "0" \/ \E k \in 1..Len(DigitChars) : DigitChars[k] = c

\* std::to_string for a positive integer
RECURSIVE to_string(_)
to_string(n) ==
    IF n < 10
    THEN << (IF n = 0 THEN "0" ELSE DigitChars[n]) >>
    ELSE to_string(n \div 10)
         \o << (IF n % 10 = 0 THEN "0" ELSE DigitChars[n % 10]) >>

\* IO::Manager::separatorSequence(), at its default ","
separatorSequence == << "," >>

\* whether `pat` occurs in `s` at position p (1-based)
MatchAt(s, pat, p) ==
    /\ p >= 1
    /\ p + Len(pat) - 1 <= Len(s)
    /\ \A k \in 1..Len(pat) : s[p + k - 1] = pat[k]

\* std::string::npos
npos == 0

\* std::string::find(pat, start): first position >= start (1-based), or npos
find(s, pat, start) ==
    LET hits == { p \in start..Len(s) : MatchAt(s, pat, p) }
    IN  IF hits = {} THEN npos
        ELSE CHOOSE p \in hits : \A r \in hits : p <= r

\* std::string::replace(pos, len, value)
replace(s, pos, len, value) ==
    SubSeq(s, 1, pos - 1) \o value \o SubSeq(s, pos + len, Len(s))

\* QString::split(sep): the parts between the separators, empty parts kept
RECURSIVE split(_, _)
split(s, sep) ==
    LET p == find(s, sep, 1)
    IN  IF p = npos THEN << s >>
        ELSE << SubSeq(s, 1, p - 1) >>
             \o split(SubSeq(s, p + Len(sep), Len(s)), sep)

\* slip: the search resumes at the place of the match
nextStart_stays(p, value) == p

\* start_pos += value.length(), p being the place of the match
nextStart(p, value) == p + Len(value)

\* the inner while loop of processFrame / JSONWorker::process, followed for
\* `fuel` iterations: the text, and whether the loop was left
RECURSIVE whileLoop(_, _, _, _, _)
whileLoop(json, id, value, start_pos, fuel) ==
    LET p == find(json, id, start_pos)
    IN  IF p = npos THEN [json |-> json, exited |-> TRUE]
        ELSE IF fuel = 0 THEN [json |-> json, exited |-> FALSE]
        ELSE whileLoop(replace(json, p, Len(id), value), id, value,
                       nextStart(p, value), fuel - 1)

\* the loop run to its end; it is followed for as many iterations as the
\* text has characters, each iteration leaving at least one of them behind
replaceLoop(json, id, value, start_pos) ==
    whileLoop(json, id, value, start_pos, Len(json)).json

\* the for loop over the fields: i is the 0-based index of the code
RECURSIVE substituteFrom(_, _, _)
substituteFrom(json, list, i) ==
    IF i >= Len(list) THEN json
    ELSE substituteFrom(
             replaceLoop(json, << Percent >> \o to_string(i + 1), list[i + 1], 1),
             list, i + 1)

substitute(json, data) == substituteFrom(json, split(data, separatorSequence), 0)

(***************************************************************************)
(* QJsonDocument::fromJson on the document syntax of this model: the       *)
(* result carries the parse error flag and the dataset values in order.    *)
(***************************************************************************)
RECURSIVE parseValues(_)
parseValues(s) ==
    \* s is the text between the braces: a run of quoted values
    IF s = << >> THEN [error |-> FALSE, d |-> << >>]
    ELSE IF s[1] # Quote THEN [error |-> TRUE, d |-> << >>]
    ELSE LET close == find(s, << Quote >>, 2)
         IN  IF close = npos THEN [error |-> TRUE, d |-> << >>]
             ELSE LET rest == parseValues(SubSeq(s, close + 1, Len(s)))
                  IN  IF rest.error THEN [error |-> TRUE, d |-> << >>]
                      ELSE [error |-> FALSE,
                            d |-> << SubSeq(s, 2, close - 1) >> \o rest.d]

fromJson(s) ==
    IF Len(s) >= 2 /\ s[1] = LBrace /\ s[Len(s)] = RBrace
    THEN parseValues(SubSeq(s, 2, Len(s) - 1))
    ELSE [error |-> TRUE, d |-> << >>]

(***************************************************************************)
(* QJSEngine::evaluate followed by isError()/toString(), on the programs   *)
(* the model's alphabet produces: a decimal literal prints as itself, the  *)
(* product of two literals prints as its value, the empty program yields   *)
(* undefined, and any other text (one holding a brace, a percent sign, a   *)
(* quote or a comma) is an error.  No input of the model holds a literal   *)
(* with a leading zero.                                                    *)
(***************************************************************************)
Times == "*"

\* the value of a digit character
DigitValue(c) == IF c = "0" THEN 0 ELSE CHOOSE k \in 1..9 : DigitChars[k] = c

\* the number a run of digits denotes
RECURSIVE toNumber(_)
toNumber(s) ==
    IF s = << >> THEN 0
    ELSE toNumber(SubSeq(s, 1, Len(s) - 1)) * 10 + DigitValue(s[Len(s)])

\* a decimal literal
IsNumber(s) ==
    /\ s # << >>
    /\ \A k \in 1..Len(s) : IsDigit(s[k])
    /\ Len(s) = 1 \/ s[1] # "0"

evaluate(value) ==
    IF value = << >> THEN [isError |-> FALSE, toString |-> << "undefined" >>]
    ELSE IF IsNumber(value)
    THEN [isError |-> FALSE, toString |-> value]
    ELSE LET p == find(value, << Times >>, 1)
             lhs == SubSeq(value, 1, p - 1)
             rhs == SubSeq(value, p + 1, Len(value))
         IN  IF p # npos /\ IsNumber(lhs) /\ IsNumber(rhs)
             THEN [isError |-> FALSE,
                   toString |-> to_string(toNumber(lhs) * toNumber(rhs))]
             ELSE [isError |-> TRUE, toString |-> << "SyntaxError" >>]

(***************************************************************************)
(* The engine keeps its global object from one evaluate() to the next.     *)
(* The model follows one global property, n: the engine's state is the     *)
(* value of n, 0 while n is not defined.  The program n=-~this.n gives n   *)
(* the next number (-~undefined is 1) and yields it; the programs above    *)
(* leave the global object alone.                                          *)
(***************************************************************************)
CounterProgram == << "n", "=", "-", "~", "t", "h", "i", "s", ".", "n" >>

\* slip: the worker evaluates on the generator's engine
newEngine_shared == m_engine

\* new QJSEngine: nothing defined yet
newEngine == 0

\* QJSEngine::evaluate on the engine in state `engine`
engineEvaluate(engine, value) ==
    IF value = CounterProgram
    THEN [isError |-> FALSE, toString |-> to_string(engine + 1),
          engine |-> engine + 1]
    ELSE [isError |-> evaluate(value).isError,
          toString |-> evaluate(value).toString, engine |-> engine]

\* slip: a dataset whose evaluation fails takes the error's text
RECURSIVE evaluateDatasets_storesError(_, _)
evaluateDatasets_storesError(datasets, engine) ==
    IF datasets = << >> THEN [d |-> << >>, engine |-> engine]
    ELSE LET jsValue == engineEvaluate(engine, Head(datasets))
             rest == evaluateDatasets_storesError(Tail(datasets), jsValue.engine)
         IN  [d |-> << jsValue.toString >> \o rest.d, engine |-> rest.engine]

\* the group/dataset loops, on one engine: each dataset value replaced when
\* its evaluation succeeds; the datasets after the loops, and the engine
RECURSIVE evaluateDatasets(_, _)
evaluateDatasets(datasets, engine) ==
    IF datasets = << >> THEN [d |-> << >>, engine |-> engine]
    ELSE LET jsValue == engineEvaluate(engine, Head(datasets))
             rest == evaluateDatasets(Tail(datasets), jsValue.engine)
         IN  [d |-> << (IF ~jsValue.isError THEN jsValue.toString
                        ELSE Head(datasets)) >> \o rest.d,
              engine |-> rest.engine]


(***************************************************************************)
(* Inputs.                                                                 *)
(***************************************************************************)
\* a well-formed document with one dataset value
DocFrame == << LBrace, Quote, "7", Quote, RBrace >>
\* one scalar field; not a document
FieldFrame == << "4" >>
\* the frames the transport delivers (the empty frame included)
FrameSet == { EmptyText, DocFrame, FieldFrame }

\* frames of several fields: two scalars; a first field that reads as the
\* marker of the second; ten fields
PairFrame == << "3", ",", "5" >>
MarkerFrame == << Percent, "2", ",", "5" >>
TenFrame == << "1", ",", "2", ",", "3", ",", "4", ",", "5", ",", "6", ",",
               "7", ",", "8", ",", "9", ",", "5" >>
\* the frame 10,20; a field that reads as its own marker; two empty fields
ScenarioFrame == << "1", "0", ",", "2", "0" >>
SelfFrame == << Percent, "1" >>
EmptyFieldsFrame == << "," >>
TextFrameSet == { FieldFrame, PairFrame, MarkerFrame, TenFrame, ScenarioFrame,
                  SelfFrame, EmptyFieldsFrame }

\* template files: a valid map, a malformed one, and a path that cannot be opened
MapPath == "map.json"
\* further valid maps: two markers, one of them twice; a marker of two digits;
\* a dataset computed from a field
PairPath == "pair.json"
TenPath == "ten.json"
CalcPath == "calc.json"
\* a map that refers to fields 1 and 3
SkipPath == "skip.json"
\* a map whose two datasets hold the same program, one that counts
CountPath == "count.json"
BrokenPath == "broken.json"
MissingPath == "missing.json"
PathSet == { "", MapPath, BrokenPath, MissingPath }
TextPathSet == { MapPath, PairPath, TenPath, CalcPath, SkipPath, MissingPath }

\* QFile::open(QFile::ReadOnly)
fileOpens(path) ==
    path \in { MapPath, BrokenPath, PairPath, TenPath, CalcPath, SkipPath,
               CountPath }

\* QFile::readAll()
fileContent(path) ==
    IF path = MapPath
    THEN << LBrace, Quote, Percent, "1", Quote, RBrace >>
    ELSE IF path = PairPath
    THEN << LBrace, Quote, Percent, "1", Quote, Quote, Percent, "2", Quote,
            Quote, Percent, "1", Quote, RBrace >>
    ELSE IF path = TenPath
    THEN << LBrace, Quote, Percent, "1", "0", Quote, RBrace >>
    ELSE IF path = CalcPath
    THEN << LBrace, Quote, Percent, "1", Times, "2", Quote,
            Quote, Percent, "2", Quote, RBrace >>
    ELSE IF path = SkipPath
    THEN << LBrace, Quote, Percent, "1", Quote, Quote, Percent, "3", Quote,
            RBrace >>
    ELSE IF path = CountPath
    THEN << LBrace, Quote >> \o CounterProgram \o << Quote, Quote >>
             \o CounterProgram \o << Quote, RBrace >>
    ELSE << LBrace, Quote, Percent, "1", Quote >>

\* the documents handed to loadJSON by its callers
JsonSet == { << << "9" >> >> }

kAutomatic == "kAutomatic"
kManual == "kManual"

\* MQTTClientMode
ClientPublisher == "ClientPublisher"
ClientSubscriber == "ClientSubscriber"

(***************************************************************************)
(* Frame information objects (JFI).                                        *)
(***************************************************************************)
JFI_CreateNew(frame, time, document) ==
    [frame |-> frame, time |-> time, doc |-> document]

JFI_Empty == [frame |-> 0, time |-> 0, doc |-> << >>]

(***************************************************************************)
(* The body shared by Generator::processFrame and JSONWorker::process:     *)
(* `returned` is the early return on an empty map, `error` the parse       *)
(* error, `document` the document built.                                   *)
(***************************************************************************)
\* slip: a missing map falls back to parsing the frame itself
buildDocument_fallsBack(data, opMode, mapData, engine) ==
    IF opMode = kAutomatic \/ mapData = EmptyText
    THEN LET parsed == fromJson(data)
         IN  [returned |-> FALSE, error |-> parsed.error, document |-> parsed.d,
              engine |-> engine]
    ELSE LET jsonDocument == fromJson(substitute(mapData, data))
             evaluated == evaluateDatasets(jsonDocument.d, engine)
         IN  [returned |-> FALSE, error |-> jsonDocument.error,
              document |-> evaluated.d, engine |-> evaluated.engine]

buildDocument(data, opMode, mapData, engine) ==
    IF opMode = kAutomatic
    THEN LET parsed == fromJson(data)
         IN  [returned |-> FALSE, error |-> parsed.error, document |-> parsed.d,
              engine |-> engine]
    ELSE IF mapData = EmptyText
    THEN [returned |-> TRUE, error |-> FALSE, document |-> << >>,
          engine |-> engine]
    ELSE LET jsonDocument == fromJson(substitute(mapData, data))
             evaluated == evaluateDatasets(jsonDocument.d, engine)
         IN  [returned |-> FALSE, error |-> jsonDocument.error,
              document |-> evaluated.d, engine |-> evaluated.engine]

\* slip: the parse error is not looked at before emitting
processFrame_ignoresError(data, frame, time) ==
    LET built == buildDocument(data, m_opMode, m_jsonMapData, m_engine)
    IN  IF ~built.returned
        THEN << JFI_CreateNew(frame, time, built.document) >>
        ELSE << >>

\* Generator::processFrame: the envelopes it emits through jsonChanged
processFrame(data, frame, time) ==
    LET built == buildDocument(data, m_opMode, m_jsonMapData, m_engine)
    IN  IF ~built.returned /\ ~built.error
        THEN << JFI_CreateNew(frame, time, built.document) >>
        ELSE << >>

\* Generator::m_engine after processFrame
engineAfter(data) == buildDocument(data, m_opMode, m_jsonMapData, m_engine).engine

(***************************************************************************)
(* Generator::reset and Generator::loadJFI.  `count` is m_frameCount on    *)
(* entry to loadJFI.                                                       *)
(***************************************************************************)
\* slip: the counter is left as it is
reset_keepsCount ==
    /\ m_frameCount' = m_frameCount
    /\ delivered' = Append(delivered, JFI_Empty)

\* slip: no empty envelope is emitted
reset_silent ==
    /\ m_frameCount' = 0
    /\ delivered' = delivered

reset ==
    /\ m_frameCount' = 0
    /\ delivered' = Append(delivered, JFI_Empty)

\* slip: the sources are not looked at
loadJFI_always(info, count) ==
    /\ delivered' = Append(delivered, info)
    /\ m_frameCount' = count

loadJFI(info, count) ==
    IF csvOpen \/ devOpen \/ mqttSub
    THEN /\ delivered' = Append(delivered, info)
         /\ m_frameCount' = count
    ELSE reset

(***************************************************************************)
(* Initial state: Generator::Generator with no persisted map location,     *)
(* no device, no replay, no MQTT subscription.  `h` names the history      *)
(* variables the specification records, `n` the number of calls it follows.*)
(***************************************************************************)
InitWith(h, n) ==
    /\ m_frameCount = 0
    /\ m_opMode = kAutomatic
    /\ m_processInSeparateThread = FALSE
    /\ m_jsonMapData = EmptyText
    /\ m_jsonMapOpen = FALSE
    /\ settings = ""
    /\ mainPc = "idle"
    /\ loadPath = ""
    /\ csvOpen = FALSE
    /\ devOpen = FALSE
    /\ mqttSub = FALSE
    /\ workers = {}
    /\ jfiQueue = << >>
    /\ delivered = << >>
    /\ clock = 0
    /\ epoch = 0
    /\ sinceEvent = 0
    /\ log = << >>
    /\ lastLoad = "none"
    /\ prevData = EmptyText
    /\ hist = h
    /\ limit = n
    /\ m_engine = 0
    /\ m_frames = << >>
    /\ m_sentMessages = 0
    /\ m_clientMode = ClientPublisher
    /\ published = << >>

Init == InitWith({ "log" }, MaxFrames)

envVars == << csvOpen, devOpen, mqttSub >>
cfgVars == << m_opMode, m_processInSeparateThread >>
mapVars == << m_jsonMapData, m_jsonMapOpen, settings, mainPc, loadPath,
              lastLoad, prevData >>
histVars == << clock, epoch, sinceEvent, log, hist, limit >>
mqttVars == << m_frames, m_sentMessages, m_clientMode, published >>

(***************************************************************************)
(* Configuration calls.                                                    *)
(***************************************************************************)
setOperationMode(mode) ==
    /\ mainPc = "idle"
    /\ m_opMode' = mode
    /\ UNCHANGED << m_engine, mqttVars, m_frameCount, m_processInSeparateThread, mapVars, envVars,
                    workers, jfiQueue, delivered, histVars >>

setProcessFramesInSeparateThread(threaded) ==
    /\ mainPc = "idle"
    /\ m_processInSeparateThread' = threaded
    /\ UNCHANGED << m_engine, mqttVars, m_frameCount, m_opMode, mapVars, envVars, workers,
                    jfiQueue, delivered, histVars >>

(***************************************************************************)
(* Generator::loadJsonMap(path): the previous file is closed (lines        *)
(* 146-152), then the new one is opened and validated (154-191).           *)
(***************************************************************************)
\* slip: the text of the closed file is kept
closePrevious_keeps == m_jsonMapData

\* m_jsonMapData after the previous file was closed
closePrevious == IF m_jsonMapOpen THEN EmptyText ELSE m_jsonMapData

\* slip: the persisted location is left as it is
writeSettingsOnFailure_keeps == settings

\* Generator::writeSettings on a failed load
writeSettingsOnFailure == ""

\* the branches of lines 154-188: the store after the call, `data` being
\* m_jsonMapData when they are entered
openAndValidate(path, data) ==
    IF fileOpens(path)
    THEN IF fromJson(fileContent(path)).error
         THEN [open |-> FALSE, data |-> data,
               settings |-> writeSettingsOnFailure, outcome |-> "parseError"]
         ELSE [open |-> TRUE, data |-> fileContent(path), settings |-> path,
               outcome |-> "ok"]
    ELSE [open |-> FALSE, data |-> EmptyText,
          settings |-> writeSettingsOnFailure, outcome |-> "openError"]

loadJsonMap(path) ==
    /\ mainPc = "idle"
    /\ IF path = ""
       THEN UNCHANGED << m_jsonMapOpen, m_jsonMapData, settings, lastLoad,
                         prevData >>
       ELSE LET after == openAndValidate(path, closePrevious)
            IN  /\ m_jsonMapOpen' = after.open
                /\ m_jsonMapData' = after.data
                /\ settings' = after.settings
                /\ IF "load" \in hist
                   THEN /\ lastLoad' = after.outcome
                        /\ prevData' = m_jsonMapData
                   ELSE UNCHANGED << lastLoad, prevData >>
    /\ UNCHANGED << m_engine, mqttVars, m_frameCount, cfgVars, mainPc, loadPath, envVars, workers,
                    jfiQueue, delivered, histVars >>

(***************************************************************************)
(* The same call as the worker threads see it: they run while the GUI      *)
(* thread is between the clearing of line 150 and the assignment of line   *)
(* 173 (or the failure branches), so the call is two steps for them.       *)
(***************************************************************************)
\* lines 143-152: the path is taken and the previous file closed
loadJsonMap_begin(path) ==
    /\ mainPc = "idle"
    /\ path # ""
    /\ mainPc' = "loading"
    /\ loadPath' = path
    /\ m_jsonMapData' = closePrevious
    /\ m_jsonMapOpen' = FALSE
    /\ IF "load" \in hist
       THEN prevData' = m_jsonMapData
       ELSE UNCHANGED prevData
    /\ UNCHANGED << m_engine, mqttVars, m_frameCount, cfgVars, settings, lastLoad, envVars,
                    workers, jfiQueue, delivered, histVars >>

\* lines 154-191: the file is opened and validated, the store updated
loadJsonMap_end ==
    /\ mainPc = "loading"
    /\ LET after == openAndValidate(loadPath, m_jsonMapData)
       IN  /\ m_jsonMapOpen' = after.open
           /\ m_jsonMapData' = after.data
           /\ settings' = after.settings
           /\ IF "load" \in hist
              THEN lastLoad' = after.outcome
              ELSE UNCHANGED lastLoad
    /\ mainPc' = "idle"
    /\ loadPath' = ""
    /\ UNCHANGED << m_engine, mqttVars, m_frameCount, cfgVars, prevData, envVars, workers,
                    jfiQueue, delivered, histVars >>

(***************************************************************************)
(* Source lifecycle: CSV::Player::openChanged and IO::Manager::deviceChanged*)
(* are connected to reset(); the MQTT client's connection changes are not. *)
(***************************************************************************)
deviceChanged ==
    /\ mainPc = "idle"
    /\ epoch < MaxEvents
    /\ devOpen' = ~devOpen
    /\ reset
    /\ epoch' = epoch + 1
    /\ sinceEvent' = 0
    /\ UNCHANGED << m_engine, mqttVars, cfgVars, mapVars, csvOpen, mqttSub, workers, jfiQueue,
                    clock, log, hist, limit >>

openChanged ==
    /\ mainPc = "idle"
    /\ epoch < MaxEvents
    /\ csvOpen' = ~csvOpen
    /\ reset
    /\ epoch' = epoch + 1
    /\ sinceEvent' = 0
    /\ UNCHANGED << m_engine, mqttVars, cfgVars, mapVars, devOpen, mqttSub, workers, jfiQueue,
                    clock, log, hist, limit >>

mqttSubscribedChanged ==
    /\ mainPc = "idle"
    /\ mqttSub' = ~mqttSub
    /\ UNCHANGED << m_engine, mqttVars, m_frameCount, cfgVars, mapVars, csvOpen, devOpen, workers,
                    jfiQueue, delivered, histVars >>

(***************************************************************************)
(* Generator::readData(data), called for IO::Manager::frameReceived: the   *)
(* manager emits it for device data and for payloads the MQTT subscriber   *)
(* hands to processPayload.                                                *)
(***************************************************************************)
\* history: the call as the log keeps it
LogEntry(op, accepted, data) ==
    IF "trace" \in hist
    THEN [op |-> op, accepted |-> accepted, data |-> data,
          frame |-> IF accepted THEN m_frameCount + 1 ELSE 0,
          ord |-> IF accepted THEN sinceEvent + 1 ELSE 0,
          epoch |-> epoch, opMode |-> m_opMode,
          threaded |-> m_processInSeparateThread]
    ELSE [op |-> op, accepted |-> accepted, data |-> data,
          frame |-> IF accepted THEN m_frameCount + 1 ELSE 0,
          ord |-> IF accepted THEN sinceEvent + 1 ELSE 0,
          epoch |-> epoch]

Record(op, accepted, data) ==
    log' = IF "log" \in hist
           THEN Append(log, LogEntry(op, accepted, data)) ELSE log

\* slip: the replay check is missing
readDataAccepts_noReplayCheck(data) == data # EmptyText

\* slip: the check for empty data is missing
readDataAccepts_noEmptyCheck(data) == ~csvOpen

\* the two early returns of readData
readDataAccepts(data) == ~csvOpen /\ data # EmptyText

\* the JSONWorker constructed for an accepted frame
JSONWorker(data, frame, time) ==
    [m_data |-> data, m_frame |-> frame, m_time |-> time, st |-> "started"]

\* slip: the counter stays at 1 once it got there
incremented_stuck == IF m_frameCount = 0 THEN 1 ELSE m_frameCount

\* slip: the increment is missing
incremented_missing == m_frameCount

\* the counter after the increment of line 301
incremented == m_frameCount + 1

readData(data) ==
    /\ mainPc = "idle"
    /\ clock < limit
    /\ clock' = clock + 1
    /\ Record("readData", readDataAccepts(data), data)
    /\ IF readDataAccepts(data)
       THEN /\ m_frameCount' = incremented
            /\ sinceEvent' = sinceEvent + 1
            /\ IF m_processInSeparateThread
               THEN /\ workers' = workers \cup
                          { JSONWorker(data, incremented, clock + 1) }
                    /\ UNCHANGED << delivered, m_engine >>
               ELSE /\ delivered' = delivered \o
                          processFrame(data, incremented, clock + 1)
                    /\ m_engine' = engineAfter(data)
                    /\ UNCHANGED workers
       ELSE UNCHANGED << m_frameCount, sinceEvent, workers, delivered,
                         m_engine >>
    /\ UNCHANGED << mqttVars, cfgVars, mapVars, envVars, jfiQueue, epoch, hist, limit >>

frameReceived(data) ==
    /\ devOpen \/ mqttSub
    /\ readData(data)

(***************************************************************************)
(* Generator::loadJSON(json).                                              *)
(***************************************************************************)
loadJSON(json) ==
    /\ mainPc = "idle"
    /\ clock < limit
    /\ clock' = clock + 1
    /\ Record("loadJSON", TRUE, EmptyText)
    /\ sinceEvent' = sinceEvent + 1
    /\ loadJFI(JFI_CreateNew(m_frameCount + 1, clock + 1, json),
               m_frameCount + 1)
    /\ UNCHANGED << m_engine, mqttVars, cfgVars, mapVars, envVars, workers, jfiQueue, epoch, hist,
                    limit >>

\* readData drops every frame during a replay while loadJFI counts the replay
\* as a source: the documents of a replay arrive through loadJSON
replayed(json) ==
    /\ csvOpen
    /\ loadJSON(json)

(***************************************************************************)
(* JSONWorker::process, on the worker's own thread; the jsonReady signal   *)
(* is queued to the GUI thread, the finished signal follows a 500 ms timer *)
(* that the early return never starts.                                     *)
(***************************************************************************)
\* slip: the worker stays started after its run, and runs again
process_again(w) ==
    /\ w \in workers
    /\ w.st = "started"
    /\ LET built == buildDocument(w.m_data, m_opMode, m_jsonMapData, newEngine)
       IN  /\ workers' = workers
           /\ jfiQueue' =
                  IF ~built.returned /\ ~built.error
                  THEN Append(jfiQueue,
                              JFI_CreateNew(w.m_frame, w.m_time, built.document))
                  ELSE jfiQueue
    /\ UNCHANGED << m_engine, mqttVars, m_frameCount, cfgVars, mapVars, envVars, delivered,
                    histVars >>

process(w) ==
    /\ w \in workers
    /\ w.st = "started"
    /\ LET built == buildDocument(w.m_data, m_opMode, m_jsonMapData, newEngine)
       IN  IF built.returned
           THEN /\ workers' = (workers \ {w}) \cup {[w EXCEPT !.st = "returned"]}
                /\ UNCHANGED jfiQueue
           ELSE /\ workers' = (workers \ {w}) \cup {[w EXCEPT !.st = "waiting"]}
                /\ jfiQueue' =
                       IF ~built.error
                       THEN Append(jfiQueue,
                                   JFI_CreateNew(w.m_frame, w.m_time, built.document))
                       ELSE jfiQueue
    /\ UNCHANGED << m_engine, mqttVars, m_frameCount, cfgVars, mapVars, envVars, delivered,
                    histVars >>

\* the single-shot timer fires: finished(), the thread quits, both are deleted
finished(w) ==
    /\ w \in workers
    /\ w.st = "waiting"
    /\ workers' = workers \ {w}
    /\ UNCHANGED << m_engine, mqttVars, m_frameCount, cfgVars, mapVars, envVars, jfiQueue,
                    delivered, histVars >>

\* slip: the queued result with the lowest frame number is handled first
jsonReady_lowestFirst ==
    /\ mainPc = "idle"
    /\ jfiQueue # << >>
    /\ LET k == CHOOSE k \in 1..Len(jfiQueue) :
                    \A r \in 1..Len(jfiQueue) :
                        jfiQueue[k].frame <= jfiQueue[r].frame
       IN  /\ loadJFI(jfiQueue[k], m_frameCount)
           /\ jfiQueue' = SubSeq(jfiQueue, 1, k - 1)
                              \o SubSeq(jfiQueue, k + 1, Len(jfiQueue))
    /\ UNCHANGED << m_engine, mqttVars, cfgVars, mapVars, envVars, workers, histVars >>

\* slip: a direct connection, the slot running whatever the GUI thread does
jsonReady_direct ==
    /\ jfiQueue # << >>
    /\ loadJFI(Head(jfiQueue), m_frameCount)
    /\ jfiQueue' = Tail(jfiQueue)
    /\ UNCHANGED << m_engine, mqttVars, cfgVars, mapVars, envVars, workers,
                    histVars >>

\* the GUI thread handles one queued jsonReady signal: loadJFI(info)
jsonReady ==
    /\ mainPc = "idle"
    /\ jfiQueue # << >>
    /\ loadJFI(Head(jfiQueue), m_frameCount)
    /\ jfiQueue' = Tail(jfiQueue)
    /\ UNCHANGED << m_engine, mqttVars, cfgVars, mapVars, envVars, workers, histVars >>

(***************************************************************************)
(* The specifications: one next-state relation, and the history each       *)
(* records.                                                                *)
(***************************************************************************)
Next ==
    \/ \E mode \in { kAutomatic, kManual } : setOperationMode(mode)
    \/ \E threaded \in BOOLEAN : setProcessFramesInSeparateThread(threaded)
    \/ \E path \in PathSet : loadJsonMap(path)
    \/ deviceChanged
    \/ openChanged
    \/ mqttSubscribedChanged
    \/ \E data \in FrameSet : frameReceived(data)
    \/ \E json \in JsonSet : replayed(json)
    \/ \E w \in workers : process(w)
    \/ \E w \in workers : finished(w)
    \/ jsonReady

Spec == Init /\ [][Next]_vars

\* records the outcome of template loads
InitMap == InitWith({ "load" }, MaxFrames)
SpecMap == InitMap /\ [][Next]_vars

\* follows two calls and records each with its data and configuration
InitTrace == InitWith({ "log", "trace" }, LongFrames)
SpecTrace == InitTrace /\ [][Next]_vars

\* the template load in two steps, so that workers run in between
NextLoad ==
    \/ \E mode \in { kAutomatic, kManual } : setOperationMode(mode)
    \/ \E threaded \in BOOLEAN : setProcessFramesInSeparateThread(threaded)
    \/ \E path \in PathSet : loadJsonMap_begin(path)
    \/ loadJsonMap_end
    \/ deviceChanged
    \/ openChanged
    \/ mqttSubscribedChanged
    \/ \E data \in FrameSet : frameReceived(data)
    \/ \E json \in JsonSet : replayed(json)
    \/ \E w \in workers : process(w)
    \/ \E w \in workers : finished(w)
    \/ jsonReady

InitLoad == InitWith({ "load" }, MaxFrames)
SpecLoad == InitLoad /\ [][NextLoad]_vars

\* the substitution and the evaluation on a wider choice of templates and
\* frames, the frames coming from the device
NextText ==
    \/ \E mode \in { kAutomatic, kManual } : setOperationMode(mode)
    \/ \E threaded \in BOOLEAN : setProcessFramesInSeparateThread(threaded)
    \/ \E path \in TextPathSet : loadJsonMap(path)
    \/ deviceChanged
    \/ \E data \in TextFrameSet : frameReceived(data)
    \/ \E w \in workers : process(w)
    \/ \E w \in workers : finished(w)
    \/ jsonReady

InitText == InitWith({ "log" }, MaxFrames)
SpecText == InitText /\ [][NextText]_vars

\* the timers fire: a single-shot timer that process() started (line 523)
\* expires, and finished() is signalled
Fairness == WF_vars(\E w \in workers : finished(w))

SpecLive == Init /\ [][Next]_vars /\ Fairness

\* two frames against the counting map, inline and offloaded
NextEngine ==
    \/ \E mode \in { kAutomatic, kManual } : setOperationMode(mode)
    \/ \E threaded \in BOOLEAN : setProcessFramesInSeparateThread(threaded)
    \/ loadJsonMap(CountPath)
    \/ deviceChanged
    \/ frameReceived(FieldFrame)
    \/ \E w \in workers : process(w)
    \/ \E w \in workers : finished(w)
    \/ jsonReady

InitEngine == InitWith({ "log", "trace" }, LongFrames)
SpecEngine == InitEngine /\ [][NextEngine]_vars

(***************************************************************************)
(* The MQTT client.  It listens to the same frames as the generator and    *)
(* shares no field with it; the part of the device state it reads is       *)
(* IO::Manager::connected().  `published` holds what was handed to         *)
(* m_client->publish() since the statistics were last reset.               *)
(***************************************************************************)
generatorVars == << m_frameCount, cfgVars, mapVars, csvOpen, mqttSub, workers,
                    jfiQueue, delivered, histVars, m_engine >>

Newline == "\n"

\* the byte array sendData builds: every frame followed by a line feed
RECURSIVE joined(_)
joined(frames) ==
    IF frames = << >> THEN EmptyText
    ELSE Head(frames) \o << Newline >> \o joined(Tail(frames))

setClientMode(mode) ==
    /\ m_clientMode' = mode
    /\ UNCHANGED << m_frames, m_sentMessages, published, devOpen, generatorVars >>

\* slip: the frame is queued whether or not a device is connected
onFrameReceived_whenDisconnected(frame) ==
    /\ IF m_clientMode # ClientPublisher
         THEN UNCHANGED m_frames
         ELSE IF frame # EmptyText
                THEN /\ Len(m_frames) < MaxQueue
                     /\ m_frames' = Append(m_frames, frame)
                ELSE UNCHANGED m_frames
    /\ UNCHANGED << m_sentMessages, m_clientMode, published, devOpen, generatorVars >>

onFrameReceived(frame) ==
    /\ IF ~devOpen
         THEN UNCHANGED m_frames
         ELSE IF m_clientMode # ClientPublisher
                THEN UNCHANGED m_frames
                ELSE IF frame # EmptyText
                       THEN /\ Len(m_frames) < MaxQueue
                            /\ m_frames' = Append(m_frames, frame)
                       ELSE UNCHANGED m_frames
    /\ UNCHANGED << m_sentMessages, m_clientMode, published, devOpen, generatorVars >>

\* sendData without the final clear()
sendData_keepsQueue ==
    /\ m_sentMessages < MaxMessages
    /\ LET data == joined(m_frames) IN
         IF data # EmptyText
           THEN /\ published' = Append(published, [id |-> m_sentMessages, payload |-> data])
                /\ m_sentMessages' = m_sentMessages + 1
           ELSE UNCHANGED << published, m_sentMessages >>
    /\ UNCHANGED << m_frames, m_clientMode, devOpen, generatorVars >>

\* the slot of the low-frequency timer
sendData ==
    /\ m_sentMessages < MaxMessages
    /\ LET data == joined(m_frames) IN
         IF data # EmptyText
           THEN /\ published' = Append(published, [id |-> m_sentMessages, payload |-> data])
                /\ m_sentMessages' = m_sentMessages + 1
           ELSE UNCHANGED << published, m_sentMessages >>
    /\ m_frames' = << >>
    /\ UNCHANGED << m_clientMode, devOpen, generatorVars >>

resetStatistics ==
    /\ m_sentMessages' = 0
    /\ m_frames' = << >>
    /\ published' = << >>

\* IO::Manager::connectedChanged, as the client sees it
connectedChanged ==
    /\ devOpen' = ~devOpen
    /\ resetStatistics
    /\ UNCHANGED << m_clientMode, generatorVars >>

NextMqtt ==
    \/ \E mode \in { ClientPublisher, ClientSubscriber } : setClientMode(mode)
    \/ \E frame \in FrameSet : onFrameReceived(frame)
    \/ sendData
    \/ connectedChanged

SpecMqtt == Init /\ [][NextMqtt]_vars

(***************************************************************************)
(* Vocabulary of the properties.                                           *)
(***************************************************************************)
\* this step is a call of readData with a frame readData accepts by the text
\* of the claim: non-empty, and no replay active
AcceptedFrameStep ==
    /\ clock' = clock + 1
    /\ log'[clock'].op = "readData"
    /\ log'[clock'].data # EmptyText
    /\ ~csvOpen

\* this step is a source-changed or source-closed event
LifecycleStep == devOpen' # devOpen \/ csvOpen' # csvOpen

\* this step runs JSONWorker::process for w
ProcessStep(w) == w \in workers /\ w.st = "started" /\ w \notin workers'

\* the envelopes delivered for the call made at time t
DeliveredFor(t) == { k \in 1..Len(delivered) : delivered[k].time = t }

\* the text the document is parsed from, for a frame processed now
FrameText(data) ==
    IF m_opMode = kAutomatic THEN data ELSE substitute(m_jsonMapData, data)

\* the frame goes through the parser now and the parser rejects it
ParseFails(data) ==
    /\ m_opMode = kManual => m_jsonMapData # EmptyText
    /\ fromJson(FrameText(data)).error

\* the frame goes through the parser now and the parser takes it
ParseSucceeds(data) ==
    /\ m_opMode = kManual => m_jsonMapData # EmptyText
    /\ ~fromJson(FrameText(data)).error

\* a call's processing is over: no worker still holds it unprocessed and no
\* signal for it is queued
Completed(t) ==
    /\ \A w \in workers : w.m_time = t => w.st # "started"
    /\ \A k \in 1..Len(jfiQueue) : jfiQueue[k].time # t

(***************************************************************************)
(* C1: the counter goes back to 0 only on a source-changed or              *)
(* source-closed event; in particular the completion of an offloaded task  *)
(* never lowers it.  (Stated as claimed; the code breaks it.)              *)
(***************************************************************************)
C1_ResetOnlyOnLifecycleEvent ==
    [][ m_frameCount' < m_frameCount => LifecycleStep ]_vars

(***************************************************************************)
(* C2: every accepted frame (non-empty, replay inactive) raises the        *)
(* counter by exactly one before dispatch, inline and offloaded, whatever  *)
(* the operation mode and whether or not the frame parses: the worker or   *)
(* the envelope carries the raised value.                                  *)
(***************************************************************************)
C2_AcceptedFrameCountsOnce ==
    [][ AcceptedFrameStep =>
          /\ m_frameCount' = m_frameCount + 1
          /\ IF m_processInSeparateThread
             THEN /\ \E w \in workers' \ workers :
                        w.m_frame = m_frameCount + 1 /\ w.st = "started"
                  /\ delivered' = delivered
             ELSE /\ workers' = workers
                  /\ \A k \in (Len(delivered) + 1)..Len(delivered') :
                        delivered'[k].frame = m_frameCount + 1 ]_vars

\* an offloaded frame that does not parse in the current mode was counted
C2_Witness ==
    /\ clock >= 1
    /\ log[clock].op = "readData"
    /\ log[clock].data = FieldFrame
    /\ m_opMode = kAutomatic
    /\ m_frameCount = 1
    /\ \E w \in workers : w.m_frame = 1 /\ w.m_time = clock

(***************************************************************************)
(* C3: after a source-changed event the counter is 0, and the frame        *)
(* accepted next is numbered 1 in the log and in its envelope, however the *)
(* completions of tasks dispatched before the event interleave.            *)
(***************************************************************************)
C3_FirstFrameAfterEventIsOne ==
    /\ (epoch >= 1 /\ sinceEvent = 0) => m_frameCount = 0
    /\ \A i \in 1..Len(log) :
          (log[i].accepted /\ log[i].epoch >= 1 /\ log[i].ord = 1)
              => log[i].frame = 1
    /\ \A k \in 1..Len(delivered) :
          (/\ delivered[k].time >= 1
           /\ log[delivered[k].time].epoch >= 1
           /\ log[delivered[k].time].ord = 1) => delivered[k].frame = 1

\* the first frame after an event is delivered as number 1, and a task from
\* before the event delivers after it
C3_Witness ==
    \E i, j \in 1..Len(delivered) :
        /\ i < j
        /\ delivered[j].time >= 1
        /\ delivered[i].time > delivered[j].time
        /\ log[delivered[i].time].ord = 1
        /\ log[delivered[i].time].epoch > log[delivered[j].time].epoch
        /\ delivered[i].frame = 1

(***************************************************************************)
(* C4: a source-changed or source-closed event sets the counter to 0 and   *)
(* emits exactly one empty envelope in the same step, and leaves the       *)
(* offloaded tasks in flight and their queued results as they are.         *)
(***************************************************************************)
C4_ResetIsImmediate ==
    [][ LifecycleStep =>
          /\ m_frameCount' = 0
          /\ delivered' = Append(delivered, JFI_Empty)
          /\ workers' = workers
          /\ jfiQueue' = jfiQueue ]_vars

\* right after an event, with a task of the previous source still unprocessed
C4_Witness ==
    /\ epoch >= 1
    /\ sinceEvent = 0
    /\ m_frameCount = 0
    /\ delivered # << >>
    /\ delivered[Len(delivered)] = JFI_Empty
    /\ \E w \in workers : w.st = "started" /\ log[w.m_time].epoch < epoch

(***************************************************************************)
(* C5: every frame accepted in Automatic mode whose bytes are a            *)
(* well-formed document yields, once processed, exactly one envelope,      *)
(* holding the parsed input and numbered by the count of frames accepted   *)
(* since the last reset.  (Stated as claimed; the code breaks it.)         *)
(***************************************************************************)
C5_OneEnvelopePerAutomaticFrame ==
    \A i \in 1..Len(log) :
        (/\ log[i].op = "readData"
         /\ log[i].accepted
         /\ log[i].opMode = kAutomatic
         /\ ~fromJson(log[i].data).error
         /\ Completed(i))
        => /\ Cardinality(DeliveredFor(i)) = 1
           /\ \A k \in DeliveredFor(i) :
                 /\ delivered[k].doc = fromJson(log[i].data).d
                 /\ delivered[k].frame = log[i].ord

(***************************************************************************)
(* C6: a frame whose text fails to parse produces no envelope, inline or   *)
(* in a worker, and is counted all the same; and whatever came before, an  *)
(* inline frame whose text parses is delivered with the next number.       *)
(***************************************************************************)
C6_ParseFailureDropsOnlyThatFrame ==
    [][ /\ (AcceptedFrameStep /\ ~m_processInSeparateThread
                /\ ParseFails(log'[clock'].data))
            => /\ delivered' = delivered
               /\ jfiQueue' = jfiQueue
               /\ m_frameCount' = m_frameCount + 1
        /\ (AcceptedFrameStep /\ m_processInSeparateThread)
            => m_frameCount' = m_frameCount + 1
        /\ \A w \in workers :
              (ProcessStep(w) /\ ParseFails(w.m_data))
                  => /\ jfiQueue' = jfiQueue
                     /\ delivered' = delivered
                     /\ m_frameCount' = m_frameCount
        /\ (AcceptedFrameStep /\ ~m_processInSeparateThread
                /\ ParseSucceeds(log'[clock'].data))
            => /\ Len(delivered') = Len(delivered) + 1
               /\ delivered'[Len(delivered')].frame = m_frameCount + 1
               /\ delivered'[Len(delivered')].time = clock + 1 ]_vars

\* the first frame failed to parse inline and was counted; the second was
\* delivered as number 2
C6_Witness ==
    /\ Len(log) = 2
    /\ log[1].op = "readData" /\ log[1].accepted /\ ~log[1].threaded
    /\ log[1].opMode = kAutomatic /\ fromJson(log[1].data).error
    /\ log[1].frame = 1
    /\ DeliveredFor(1) = {}
    /\ log[2].op = "readData" /\ log[2].accepted /\ ~log[2].threaded
    /\ \E k \in DeliveredFor(2) : delivered[k].frame = 2
    /\ m_frameCount = 2

(***************************************************************************)
(* C7: while the replay source is open, a frame arriving from the          *)
(* transport is dropped: nothing is delivered or queued, no worker is      *)
(* created and the counter stays.                                          *)
(***************************************************************************)
C7_ReplayDropsFrames ==
    [][ (/\ clock' = clock + 1
         /\ log'[clock'].op = "readData"
         /\ csvOpen)
        => UNCHANGED << m_frameCount, workers, jfiQueue, delivered >> ]_vars

\* a non-empty frame arrived during a replay
C7_Witness ==
    /\ clock >= 1
    /\ log[clock].op = "readData"
    /\ log[clock].data # EmptyText
    /\ ~log[clock].accepted
    /\ csvOpen
    /\ workers = {}

(***************************************************************************)
(* C8: in Templated mode with no template loaded an accepted frame yields  *)
(* no envelope: inline nothing is emitted, and a worker processing it      *)
(* queues nothing.                                                         *)
(***************************************************************************)
C8_NoTemplateNoEnvelope ==
    [][ /\ (AcceptedFrameStep /\ ~m_processInSeparateThread
                /\ m_opMode = kManual /\ m_jsonMapData = EmptyText)
            => (delivered' = delivered /\ jfiQueue' = jfiQueue)
        /\ \A w \in workers :
              (ProcessStep(w) /\ m_opMode = kManual
                   /\ m_jsonMapData = EmptyText)
                  => (delivered' = delivered /\ jfiQueue' = jfiQueue) ]_vars

\* a worker went through process() in Templated mode without a template
C8_Witness ==
    \E w \in workers :
        /\ w.st = "returned"
        /\ DeliveredFor(w.m_time) = {}
        /\ jfiQueue = << >>

(***************************************************************************)
(* C9: after a failed template load (the file cannot be opened, or its     *)
(* content is no well-formed document) the template text is empty and the  *)
(* persisted path is cleared, whatever was loaded before.                  *)
(***************************************************************************)
C9_FailedLoadClearsStore ==
    lastLoad \in { "parseError", "openError" }
        => (m_jsonMapData = EmptyText /\ settings = "")

\* a malformed file was loaded over a valid template
C9_Witness ==
    /\ lastLoad = "parseError"
    /\ prevData # EmptyText
    /\ m_jsonMapData = EmptyText

(***************************************************************************)
(* C10 as claimed: a failed load leaves the store as it was, the template  *)
(* loaded before still being its document.                                 *)
(***************************************************************************)
C10_FailedLoadKeepsPrevious ==
    lastLoad \in { "parseError", "openError" } => m_jsonMapData = prevData

(***************************************************************************)
(* C10 as amended: a failed load leaves the store empty and its file       *)
(* closed, never half-loaded; a template loaded before is not kept.        *)
(***************************************************************************)
C10_FailedLoadLeavesStoreEmpty ==
    lastLoad \in { "parseError", "openError" }
        => /\ ~m_jsonMapOpen
           /\ m_jsonMapData = EmptyText
           /\ prevData # EmptyText => m_jsonMapData # prevData

\* a path that cannot be opened was loaded over a valid template
C10_Witness ==
    /\ lastLoad = "openError"
    /\ prevData # EmptyText
    /\ ~m_jsonMapOpen

(***************************************************************************)
(* C11: a successful template load replaces the old text atomically: a     *)
(* worker that reads the template while the load is under way sees the     *)
(* complete old text or the complete new one, never an empty or            *)
(* intermediate value.  (Stated as claimed; the code breaks it.)           *)
(***************************************************************************)
C11_ReaderSeesOldOrNew ==
    [][ \A w \in workers :
          (/\ ProcessStep(w)
           /\ m_opMode = kManual
           /\ mainPc = "loading"
           /\ fileOpens(loadPath)
           /\ ~fromJson(fileContent(loadPath)).error)
          => m_jsonMapData \in { prevData, fileContent(loadPath) } ]_vars

\* the envelopes the task of worker w delivers if it runs in this state
TaskEnvelope(w) ==
    LET built == buildDocument(w.m_data, m_opMode, m_jsonMapData, newEngine)
    IN  IF ~built.returned /\ ~built.error
        THEN << JFI_CreateNew(w.m_frame, w.m_time, built.document) >>
        ELSE << >>

(***************************************************************************)
(* C12: a task builds its document from the template that was current      *)
(* when its frame was dispatched: replacing or clearing the template while *)
(* the task has not yet run does not change the envelope the task          *)
(* delivers.  (Stated as claimed; the code breaks it.)                     *)
(***************************************************************************)
C12_TaskKeepsTemplateSnapshot ==
    [][ \A w \in workers :
          (/\ w.st = "started"
           /\ w \in workers'
           /\ m_opMode' = m_opMode
           /\ m_jsonMapData' # m_jsonMapData)
          => TaskEnvelope(w)' = TaskEnvelope(w) ]_vars

(***************************************************************************)
(* C13: a task already dispatched processes its frame under the operation  *)
(* mode that was set when it was dispatched, even if setOperationMode is   *)
(* called before it runs.  (Stated as claimed; the code breaks it.)        *)
(***************************************************************************)
C13_TaskKeepsDispatchMode ==
    [][ \A w \in workers :
          ProcessStep(w)
          => LET built == buildDocument(w.m_data, log[w.m_time].opMode,
                                        m_jsonMapData, newEngine)
             IN  jfiQueue' = jfiQueue \o
                     (IF ~built.returned /\ ~built.error
                      THEN << JFI_CreateNew(w.m_frame, w.m_time,
                                            built.document) >>
                      ELSE << >>) ]_vars

(***************************************************************************)
(* C14: offloaded delivery is in the order the tasks complete, not in the  *)
(* order the frames were dispatched: a result is queued when its task      *)
(* runs, whatever its number, and the queue is handled first in first out; *)
(* so frame N+1 can be delivered before frame N (the witness).             *)
(***************************************************************************)
C14_DeliveryFollowsCompletionOrder ==
    [][ /\ \A w \in workers :
              (ProcessStep(w) /\ jfiQueue' # jfiQueue)
              => /\ Len(jfiQueue') = Len(jfiQueue) + 1
                 /\ SubSeq(jfiQueue', 1, Len(jfiQueue)) = jfiQueue
                 /\ jfiQueue'[Len(jfiQueue')].frame = w.m_frame
        /\ Len(jfiQueue') < Len(jfiQueue)
              => /\ jfiQueue' = Tail(jfiQueue)
                 /\ delivered' \in { Append(delivered, Head(jfiQueue)),
                                     Append(delivered, JFI_Empty) } ]_vars

\* two offloaded frames of one source, dispatched as N and N+1, delivered as
\* N+1 and then N
C14_Witness ==
    \E i, j \in 1..Len(delivered) :
        /\ i < j
        /\ delivered[j].time >= 1
        /\ delivered[i].time > delivered[j].time
        /\ delivered[i].frame = delivered[j].frame + 1
        /\ log[delivered[i].time].threaded
        /\ log[delivered[j].time].threaded
        /\ log[delivered[i].time].epoch = log[delivered[j].time].epoch

(***************************************************************************)
(* C15: an offloaded task delivers exactly the envelope inline processing  *)
(* delivers for the same frame, template, mode and collaborator state: the *)
(* task builds what processFrame builds, and the handling of its result    *)
(* emits that envelope and changes nothing else of the generator.          *)
(* (Stated as claimed; the code breaks it.)                                *)
(***************************************************************************)
C15_OffloadedDeliversAsInline ==
    [][ /\ \A w \in workers :
              ProcessStep(w)
              => jfiQueue' = jfiQueue \o processFrame(w.m_data, w.m_frame, w.m_time)
        /\ Len(jfiQueue') < Len(jfiQueue)
              => /\ delivered' = Append(delivered, Head(jfiQueue))
                 /\ m_frameCount' = m_frameCount ]_vars

\* the queued results of the call made at time t
QueuedFor(t) == { k \in 1..Len(jfiQueue) : jfiQueue[k].time = t }

(***************************************************************************)
(* C16: a task runs once and is never retried: each dispatched frame has   *)
(* one worker at most and yields one envelope at most (queued or           *)
(* delivered), none before its task ran; the envelope carries the frame    *)
(* number and time given at dispatch; and a task whose frame fails to      *)
(* parse queues nothing.                                                   *)
(***************************************************************************)
C16_TaskRunsOnce ==
    [][ /\ \A t \in 1..Len(log') :
              (log'[t].op = "readData" /\ log'[t].accepted)
              => /\ Cardinality(DeliveredFor(t)') + Cardinality(QueuedFor(t)') <= 1
                 /\ Cardinality({ w \in workers' : w.m_time = t }) <= 1
                 /\ \A k \in DeliveredFor(t)' :
                        delivered'[k].frame = log'[t].frame
                 /\ \A k \in QueuedFor(t)' :
                        jfiQueue'[k].frame = log'[t].frame
                 /\ \A w \in workers' :
                        (w.m_time = t /\ w.st = "started")
                        => (/\ w.m_frame = log'[t].frame
                            /\ DeliveredFor(t)' = {}
                            /\ QueuedFor(t)' = {})
        /\ \A w \in workers :
              (ProcessStep(w) /\ ParseFails(w.m_data))
              => (jfiQueue' = jfiQueue /\ delivered' = delivered) ]_vars

\* a task ran, its envelope was delivered with the number given at dispatch,
\* and the worker is waiting for its timer
C16_Witness ==
    \E w \in workers :
        /\ w.st = "waiting"
        /\ log[w.m_time].frame = w.m_frame
        /\ QueuedFor(w.m_time) = {}
        /\ \E k \in DeliveredFor(w.m_time) : delivered[k].frame = w.m_frame

(***************************************************************************)
(* Vocabulary of the substitution properties: the markers of a template    *)
(* and the text the contract describes, in which each marker %k, read with *)
(* all its digits, stands for field k when the frame has one and for       *)
(* itself when it has not, and inserted text is not looked at again.       *)
(***************************************************************************)
\* the number of digits in s from position p on
RECURSIVE DigitRun(_, _)
DigitRun(s, p) ==
    IF p <= Len(s) /\ IsDigit(s[p]) THEN 1 + DigitRun(s, p + 1) ELSE 0

\* a marker starts at position p of s
MarkerAt(s, p) ==
    /\ p < Len(s)
    /\ s[p] = Percent
    /\ DigitRun(s, p + 1) > 0
    /\ s[p + 1] # "0"

\* the id of the marker at position p
MarkerId(s, p) == toNumber(SubSeq(s, p + 1, p + DigitRun(s, p + 1)))

MarkerIds(s) == { MarkerId(s, p) : p \in { q \in 1..Len(s) : MarkerAt(s, q) } }

RECURSIVE Resolve(_, _, _)
Resolve(s, list, p) ==
    IF p > Len(s) THEN << >>
    ELSE IF MarkerAt(s, p)
    THEN LET n == DigitRun(s, p + 1)
             k == MarkerId(s, p)
         IN  (IF k <= Len(list) THEN list[k] ELSE SubSeq(s, p, p + n))
                 \o Resolve(s, list, p + n + 1)
    ELSE << s[p] >> \o Resolve(s, list, p + 1)

\* the envelope of a document text
EnvelopeOf(text, frame, time) ==
    LET parsed == fromJson(text)
    IN  IF parsed.error THEN << >>
        ELSE << JFI_CreateNew(frame, time,
                              evaluateDatasets(parsed.d, newEngine).d) >>

\* a frame is processed against a loaded template in this step: inline ...
TemplatedInlineStep ==
    /\ AcceptedFrameStep
    /\ ~m_processInSeparateThread
    /\ m_opMode = kManual
    /\ m_jsonMapData # EmptyText

\* ... or by the worker w
TemplatedProcessStep(w) ==
    /\ ProcessStep(w)
    /\ m_opMode = kManual
    /\ m_jsonMapData # EmptyText

\* the step emits the envelope of `text` for the frame it processes
InlineEmits(text) ==
    delivered' = delivered \o EnvelopeOf(text, m_frameCount + 1, clock + 1)

WorkerEmits(w, text) ==
    jfiQueue' = jfiQueue \o EnvelopeOf(text, w.m_frame, w.m_time)

\* no field holds a percent sign
PlainFields(list) ==
    \A i \in 1..Len(list) : find(list[i], << Percent >>, 1) = npos

\* every marker of the template has a field
C17_Case(template, list) ==
    /\ MarkerIds(template) # {}
    /\ \A k \in MarkerIds(template) : k <= Len(list)
    /\ PlainFields(list)

\* no marker of the template has a field
C18_Case(template, list) ==
    /\ MarkerIds(template) # {}
    /\ \A k \in MarkerIds(template) : k > Len(list)

\* field i, which the template uses, holds the marker of another field j,
\* and no marker has more than one digit
C19_Case(template, list) ==
    /\ Len(list) <= 9
    /\ \A k \in MarkerIds(template) : k <= 9
    /\ \E i, j \in 1..Len(list) :
          /\ i # j
          /\ i \in MarkerIds(template)
          /\ find(list[i], << Percent >> \o to_string(j), 1) # npos

(***************************************************************************)
(* C17: when every marker of the template has a field, each occurrence of  *)
(* %k is replaced by the text of field k, so the envelope is that of the   *)
(* template with every marker resolved, all occurrences of one id alike.   *)
(* (Stated as claimed; the code breaks it.)                                *)
(***************************************************************************)
C17_EveryMarkerResolved ==
    [][ /\ (TemplatedInlineStep
                /\ C17_Case(m_jsonMapData,
                            split(log'[clock'].data, separatorSequence)))
            => InlineEmits(Resolve(m_jsonMapData,
                               split(log'[clock'].data, separatorSequence), 1))
        /\ \A w \in workers :
              (TemplatedProcessStep(w)
                  /\ C17_Case(m_jsonMapData, split(w.m_data, separatorSequence)))
              => WorkerEmits(w, Resolve(m_jsonMapData,
                                    split(w.m_data, separatorSequence), 1)) ]_vars

(***************************************************************************)
(* C18: a marker %k whose id is larger than the number of fields is left   *)
(* untouched, multi-digit ids included: when no marker of the template has *)
(* a field, the envelope is that of the template text itself.              *)
(* (Stated as claimed; the code breaks it.)                                *)
(***************************************************************************)
C18_UnmatchedMarkerUntouched ==
    [][ /\ (TemplatedInlineStep
                /\ C18_Case(m_jsonMapData,
                            split(log'[clock'].data, separatorSequence)))
            => InlineEmits(m_jsonMapData)
        /\ \A w \in workers :
              (TemplatedProcessStep(w)
                  /\ C18_Case(m_jsonMapData, split(w.m_data, separatorSequence)))
              => WorkerEmits(w, m_jsonMapData) ]_vars

(***************************************************************************)
(* C19: an inserted value is never scanned again: when field i holds the   *)
(* marker text of another field j, that text stays in the document as the  *)
(* frame gave it.  (Stated as claimed; the code breaks it.)                *)
(***************************************************************************)
C19_InsertedValueNotRescanned ==
    [][ /\ (TemplatedInlineStep
                /\ C19_Case(m_jsonMapData,
                            split(log'[clock'].data, separatorSequence)))
            => InlineEmits(Resolve(m_jsonMapData,
                               split(log'[clock'].data, separatorSequence), 1))
        /\ \A w \in workers :
              (TemplatedProcessStep(w)
                  /\ C19_Case(m_jsonMapData, split(w.m_data, separatorSequence)))
              => WorkerEmits(w, Resolve(m_jsonMapData,
                                    split(w.m_data, separatorSequence), 1)) ]_vars

\* the document the code parses for a frame processed now
SubstitutedDatasets(data) == fromJson(substitute(m_jsonMapData, data)).d

\* the datasets after evaluation, as the contract gives them
EvaluatedAsClaimed(datasets, doc) ==
    /\ Len(doc) = Len(datasets)
    /\ \A j \in 1..Len(datasets) :
          doc[j] = IF evaluate(datasets[j]).isError
                   THEN datasets[j]
                   ELSE evaluate(datasets[j]).toString

(***************************************************************************)
(* C20: for a Templated frame whose substituted text parses, the envelope  *)
(* is emitted whatever the evaluations give, and each dataset holds the    *)
(* evaluator's textual result when its evaluation succeeds and its         *)
(* pre-evaluation value when it errors, independently of the others.       *)
(***************************************************************************)
C20_EvaluationPerDataset ==
    [][ /\ (TemplatedInlineStep /\ ParseSucceeds(log'[clock'].data))
            => /\ Len(delivered') = Len(delivered) + 1
               /\ delivered'[Len(delivered')].frame = m_frameCount + 1
               /\ EvaluatedAsClaimed(SubstitutedDatasets(log'[clock'].data),
                                     delivered'[Len(delivered')].doc)
        /\ \A w \in workers :
              (TemplatedProcessStep(w) /\ ParseSucceeds(w.m_data))
              => /\ Len(jfiQueue') = Len(jfiQueue) + 1
                 /\ jfiQueue'[Len(jfiQueue')].frame = w.m_frame
                 /\ EvaluatedAsClaimed(SubstitutedDatasets(w.m_data),
                                       jfiQueue'[Len(jfiQueue')].doc) ]_vars

\* an envelope with a computed dataset (4*2 gave 8) next to one whose
\* evaluation failed and kept its text
C20_Witness ==
    \E k \in 1..Len(delivered) :
        /\ delivered[k].frame >= 1
        /\ delivered[k].doc = << << "8" >>, << Percent, "2" >> >>

\* envelope k was built inline, in Templated mode
InlineTemplatedEnvelope(k) ==
    /\ delivered[k].time >= 1
    /\ log[delivered[k].time].op = "readData"
    /\ ~log[delivered[k].time].threaded
    /\ log[delivered[k].time].opMode = kManual

\* the expressions evaluated for envelope k, the counting map being the one
\* map of the specification
ExpressionsOf(k) ==
    fromJson(substitute(fileContent(CountPath), log[delivered[k].time].data)).d

(***************************************************************************)
(* C21: evaluation keeps no state across calls: in inline processing the   *)
(* same error-free expression, with the same substituted values, gives the *)
(* same result in every dataset and every frame.  (Stated as claimed; the  *)
(* code breaks it.)                                                        *)
(***************************************************************************)
C21_EvaluationKeepsNoState ==
    \A k1, k2 \in 1..Len(delivered) :
        (InlineTemplatedEnvelope(k1) /\ InlineTemplatedEnvelope(k2))
        => \A j1 \in 1..Len(delivered[k1].doc), j2 \in 1..Len(delivered[k2].doc) :
              ExpressionsOf(k1)[j1] = ExpressionsOf(k2)[j2]
              => delivered[k1].doc[j1] = delivered[k2].doc[j2]

(***************************************************************************)
(* C22: a task evaluates on an engine of its own, made inside the task:    *)
(* its result is the one an engine on which nothing was evaluated gives,   *)
(* whatever the generator's engine and the other tasks did before, and its *)
(* run leaves the generator's engine and the other workers as they are.    *)
(***************************************************************************)
C22_TaskOwnsItsEngine ==
    [][ \A w \in workers :
          ProcessStep(w)
          => /\ m_engine' = m_engine
             /\ \A v \in workers \ {w} : v \in workers'
             /\ LET built == buildDocument(w.m_data, m_opMode, m_jsonMapData, 0)
                IN  jfiQueue' = jfiQueue \o
                        (IF ~built.returned /\ ~built.error
                         THEN << JFI_CreateNew(w.m_frame, w.m_time,
                                               built.document) >>
                         ELSE << >>) ]_vars

\* the generator's engine has counted to 2 in an inline frame, and the task
\* of the next frame counted 1 and 2 on its own
C22_Witness ==
    /\ m_engine = 2
    /\ \E w \in workers :
          /\ w.st = "waiting"
          /\ w.m_time = 2
          /\ \E k \in QueuedFor(2) : jfiQueue[k].doc = << << "1" >>, << "2" >> >>

(***************************************************************************)
(* C23: scenario C: with the frame 10,20 and a template that refers to %1  *)
(* and %3, the marker %3 stays in the substituted text, the parse of that  *)
(* text fails, no envelope is emitted and the counter goes up by one.      *)
(* (Stated as claimed; the code breaks it.)                                *)
(***************************************************************************)
C23_ScenarioC ==
    [][ (/\ TemplatedInlineStep
         /\ log'[clock'].data = ScenarioFrame
         /\ m_jsonMapData = fileContent(SkipPath))
        => /\ find(substitute(m_jsonMapData, ScenarioFrame),
                   << Percent, "3" >>, 1) # npos
           /\ fromJson(substitute(m_jsonMapData, ScenarioFrame)).error
           /\ delivered' = delivered
           /\ m_frameCount' = m_frameCount + 1 ]_vars

\* every while loop of the passes for fields i+1, i+2, ... is left
RECURSIVE LoopsExit(_, _, _)
LoopsExit(json, list, i) ==
    IF i >= Len(list) THEN TRUE
    ELSE LET r == whileLoop(json, << Percent >> \o to_string(i + 1),
                            list[i + 1], 1, Len(json))
         IN  r.exited /\ LoopsExit(r.json, list, i + 1)

(***************************************************************************)
(* C28: the substitution loop terminates for every template and every      *)
(* field list, a field that holds its own marker and an empty field        *)
(* included: each while loop is left within as many iterations as the text *)
(* it starts on has characters.                                            *)
(***************************************************************************)
C28_SubstitutionTerminates ==
    [][ /\ TemplatedInlineStep
            => /\ LoopsExit(m_jsonMapData,
                            split(log'[clock'].data, separatorSequence), 0)
               /\ m_frameCount' = m_frameCount + 1
        /\ \A w \in workers :
              TemplatedProcessStep(w)
              => LoopsExit(m_jsonMapData,
                           split(w.m_data, separatorSequence), 0) ]_vars

\* the frame %1 went through the template {'%1'} and was delivered as it is
C28_Witness ==
    \E k \in 1..Len(delivered) :
        /\ delivered[k].time >= 1
        /\ log[delivered[k].time].data = SelfFrame
        /\ delivered[k].doc = << SelfFrame >>

\* some source is open: the condition of loadJFI
SourceOpen == csvOpen \/ devOpen \/ mqttSub

(***************************************************************************)
(* C24: the frame counter is written on the GUI thread only: the run of a  *)
(* worker and its release leave it alone, and every change of it, the      *)
(* reset a worker's completion triggers through jsonReady and loadJFI      *)
(* included, happens in a step of the GUI thread taken between two of its  *)
(* handlers, never inside another one.                                     *)
(***************************************************************************)
C24_CounterOnGuiThreadOnly ==
    [][ /\ \A w \in workers :
              (w \notin workers') => m_frameCount' = m_frameCount
        /\ m_frameCount' # m_frameCount
              => (mainPc = "idle" /\ mainPc' = "idle") ]_vars

\* a completion reset the counter: frames were accepted since the last
\* source event, yet the counter is 0 and the last emission the empty one
C24_Witness ==
    /\ m_frameCount = 0
    /\ sinceEvent >= 1
    /\ mainPc = "idle"
    /\ delivered # << >>
    /\ delivered[Len(delivered)] = JFI_Empty
    /\ \E w \in workers : w.st = "waiting"

(***************************************************************************)
(* C25: an envelope that reaches loadJFI, from a task or from loadJSON, is *)
(* delivered if and only if the replay is open, the device connected or    *)
(* the MQTT client subscribed at that moment; otherwise it is discarded,   *)
(* the counter set to 0 and one empty envelope emitted in its place.       *)
(***************************************************************************)
C25_DeliveredIffSourceOpen ==
    [][ /\ Len(jfiQueue') < Len(jfiQueue)
            => IF SourceOpen
               THEN /\ delivered' = Append(delivered, Head(jfiQueue))
                    /\ m_frameCount' = m_frameCount
               ELSE /\ delivered' = Append(delivered, JFI_Empty)
                    /\ m_frameCount' = 0
        /\ (clock' = clock + 1 /\ log'[clock'].op = "loadJSON")
            => IF SourceOpen
               THEN /\ Len(delivered') = Len(delivered) + 1
                    /\ delivered'[Len(delivered')].frame = m_frameCount + 1
                    /\ delivered'[Len(delivered')].doc \in JsonSet
                    /\ m_frameCount' = m_frameCount + 1
               ELSE /\ delivered' = Append(delivered, JFI_Empty)
                    /\ m_frameCount' = 0 ]_vars

\* the envelope of a well-formed frame was discarded: no source was open
\* when its task completed
C25_Witness ==
    /\ ~SourceOpen
    /\ m_frameCount = 0
    /\ jfiQueue = << >>
    /\ delivered # << >>
    /\ delivered[Len(delivered)] = JFI_Empty
    /\ \E w \in workers :
          /\ w.st = "waiting"
          /\ w.m_data = DocFrame
          /\ DeliveredFor(w.m_time) = {}

(***************************************************************************)
(* C29: an empty frame is not accepted: readData with empty data leaves    *)
(* the counter as it is, creates no worker and delivers or queues nothing. *)
(***************************************************************************)
C29_EmptyFrameIgnored ==
    [][ (/\ clock' = clock + 1
         /\ log'[clock'].op = "readData"
         /\ log'[clock'].data = EmptyText)
        => (/\ m_frameCount' = m_frameCount
            /\ workers' = workers
            /\ jfiQueue' = jfiQueue
            /\ delivered' = delivered) ]_vars

\* an empty frame came from the connected device, no replay being open
C29_Witness ==
    /\ clock >= 1
    /\ log[clock].op = "readData"
    /\ log[clock].data = EmptyText
    /\ ~log[clock].accepted
    /\ devOpen
    /\ ~csvOpen
    /\ m_frameCount = 0

\* envelope k was built inline by readData
InlineEnvelope(k) ==
    /\ delivered[k].time >= 1
    /\ log[delivered[k].time].op = "readData"
    /\ ~log[delivered[k].time].threaded

\* an empty envelope, the mark of a reset, lies between envelopes i and j
ResetBetween(i, j) == \E m \in (i + 1)..(j - 1) : delivered[m] = JFI_Empty

(***************************************************************************)
(* C26: inline envelopes are delivered in dispatch order: they stand in    *)
(* the order of their frames, between two resets their numbers rise        *)
(* strictly, and each is out before readData returns: after an inline call *)
(* nothing of its frame is left in a worker or in the queue, and a         *)
(* well-formed Automatic frame has its envelope.                           *)
(***************************************************************************)
C26_InlineInDispatchOrder ==
    /\ \A i, j \in 1..Len(delivered) :
          (i < j /\ InlineEnvelope(i) /\ InlineEnvelope(j))
          => /\ delivered[i].time < delivered[j].time
             /\ ~ResetBetween(i, j) => delivered[i].frame < delivered[j].frame
    /\ \A t \in 1..Len(log) :
          (log[t].op = "readData" /\ log[t].accepted /\ ~log[t].threaded)
          => /\ QueuedFor(t) = {}
             /\ \A w \in workers : w.m_time # t
             /\ (log[t].opMode = kAutomatic /\ ~fromJson(log[t].data).error)
                    => Cardinality(DeliveredFor(t)) = 1

\* two inline frames delivered one after the other as numbers 1 and 2
C26_Witness ==
    \E i \in 1..(Len(delivered) - 1) :
        /\ InlineEnvelope(i)
        /\ InlineEnvelope(i + 1)
        /\ delivered[i].frame = 1
        /\ delivered[i + 1].frame = 2

\* the worker of the call made at time t has run process()
Processed(t) == \E w \in workers : w.m_time = t /\ w.st # "started"

\* that worker has signalled finished and is released
Released(t) == \A w \in workers : w.m_time # t

(***************************************************************************)
(* C27: every worker signals finished after process() has run, so that it  *)
(* and its thread are released, in every operation mode and template       *)
(* state, Templated mode without a template included.  (Stated as claimed; *)
(* the code breaks it.)                                                    *)
(***************************************************************************)
C27_WorkerEventuallyFinishes ==
    \A t \in 1..LongFrames : Processed(t) ~> Released(t)

\* the frames a published payload carries, one per line feed
RECURSIVE framesOf(_, _)
framesOf(payload, frame) ==
    IF payload = EmptyText THEN << >>
    ELSE IF Head(payload) = Newline
           THEN << frame >> \o framesOf(Tail(payload), EmptyText)
           ELSE framesOf(Tail(payload), Append(frame, Head(payload)))

\* this step hands a message to the broker client
PublishStep == published' # published /\ published' # << >>

\* C30: sendData publishes all queued frames, in arrival order, as one
\* message and then empties the queue: a publication carries exactly the
\* frames that were queued, leaves the queue empty and raises the
\* sent-message counter by one; the counter moves at no other occasion but a
\* reset of the statistics; and the ids of the messages published since the
\* last reset are 0, 1, 2, ... in order.
C30_SendDataPublishesQueue ==
    [][ /\ PublishStep =>
             /\ m_frames # << >>
             /\ m_frames' = << >>
             /\ m_sentMessages' = m_sentMessages + 1
             /\ Len(published') = Len(published) + 1
             /\ SubSeq(published', 1, Len(published)) = published
             /\ LET message == published'[Len(published')] IN
                  /\ message.id = m_sentMessages
                  /\ framesOf(message.payload, EmptyText) = m_frames
        /\ m_sentMessages' # m_sentMessages =>
             \/ PublishStep
             \/ m_sentMessages' = 0 /\ m_frames' = << >>
        /\ \A k \in 1..Len(published') : published'[k].id = k - 1
        /\ Len(published') = m_sentMessages' ]_vars

\* two messages were published since the last reset, the first with two
\* frames, and the queue is empty
C30_Witness ==
    /\ Len(published) = 2
    /\ published[1] = [id |-> 0, payload |-> joined(<< FieldFrame, DocFrame >>)]
    /\ published[2].id = 1
    /\ m_sentMessages = 2
    /\ m_frames = << >>

\* this step lengthens the publish queue
QueueGrows == Len(m_frames') > Len(m_frames)

\* C31: onFrameReceived appends a frame to the publish queue only when the
\* device is connected, the client mode is Publisher and the frame is
\* non-empty: the queue grows only by one non-empty frame at its end, only
\* with a device connected and in Publisher mode, and such a step leaves the
\* sent-message counter and the published messages alone; with no device
\* or in Subscriber mode the queue never grows.
C31_QueuedOnlyWhenPublishing ==
    [][ /\ QueueGrows =>
             /\ devOpen
             /\ m_clientMode = ClientPublisher
             /\ \E frame \in FrameSet \ { EmptyText } :
                    m_frames' = Append(m_frames, frame)
             /\ m_sentMessages' = m_sentMessages
             /\ published' = published
        /\ \A k \in 1..Len(m_frames') : m_frames'[k] # EmptyText ]_vars

\* a frame is queued, one message went out before it, and the client has
\* since become a subscriber with the device still connected
C31_Witness ==
    /\ m_frames = << DocFrame >>
    /\ m_sentMessages = 1
    /\ m_clientMode = ClientSubscriber
    /\ devOpen

=============================================================================
